---- MODULE Spec2Model ----
(***************************************************************************)
(* Model of the QR authentication plugin (src/src/plugin/server.ts).       *)
(*                                                                         *)
(* The four endpoints (generate, verify, status, claim-session) are        *)
(* request handlers that run concurrently against one record store.  A     *)
(* handler is cut at every `await` on the store or on the session system:  *)
(* one action is the code that runs between two awaits.  Two awaits that    *)
(* touch no shared mutable state are joined to the step before them: the   *)
(* user lookup of claimSession (users are never removed here) and          *)
(* setSessionCookie (it writes the response only).                         *)
(*                                                                         *)
(* A request keeps the row it read and the time of its checks while its    *)
(* handler runs, and its inputs and response afterwards.                   *)
(***************************************************************************)
EXTENDS Integers, FiniteSets, Sequences, TLC

\* ---------------------------------------------------------------- bounds
MaxTime == 3
MaxTokens == 1
MaxReqs == 3
MaxPolls == 3
MaxGenerated == 2

\* ------------------------------------------------------ program constants
\* The clock counts ticks of 150 000 ms (2.5 minutes).
MsPerTick == 150 * 1000
\* tokenExpirationMinutes: z.number().min(1).max(60).default(5)
MinTtlMs == 1 * 60 * 1000
MaxTtlMs == 60 * 60 * 1000
DefaultTtlMs == 5 * 60 * 1000
\* the lifetime of a session creation token: 5 * 60 * 1000 ms
SctTtlMs == 5 * 60 * 1000
SctTtl == SctTtlMs \div MsPerTick

\* The configurations of tokenExpirationMinutes the model explores, in ticks:
\* 2.5 minutes (shorter than the second-phase TTL), the default of 5 minutes,
\* and 7.5 minutes (longer than it).
TtlChoices ==
    {t \in {1, DefaultTtlMs \div MsPerTick, SctTtl + 1} :
        MinTtlMs <= t * MsPerTick /\ t * MsPerTick <= MaxTtlMs}

\* ------------------------------------------------------------ value space
Null == 0
NullDate == -1
Users == {1, 2}
Reqs == 1..MaxReqs

\* uuidv4() never returns the same value twice: the k-th generated id, its
\* secret, and the session creation token minted by request r are drawn from
\* disjoint ranges.
TokenIdOf(k) == k
SecretOf(id) == 10 + id
SctOf(r) == 100 + r
\* the token of the session that createSession returns to request r
SessionTokenOf(r) == 200 + r
\* the session the scanning device of user u is logged in with
DeviceSessionOf(u) == 300 + u
WrongSecret == 99
BogusId == 9
BogusSct == 199

NoRec == [found |-> FALSE, id |-> Null, token |-> Null, createdAt |-> NullDate,
          expiresAt |-> NullDate, isUsed |-> FALSE, userId |-> Null,
          verifiedAt |-> NullDate, sessionCreationToken |-> Null,
          sessionCreationTokenExpiresAt |-> NullDate]

NoResp == [status |-> 0, error |-> "", pstatus |-> "", userId |-> Null,
           sessionCreationToken |-> Null, sessionToken |-> Null]

\* A request: what it was sent with (tokenId, token, the session user of the
\* caller, sessionCreationToken), where its handler stands, the row its
\* findOne returned and the time of the checks on it (held while the handler
\* runs), and its response.
IdleReq == [kind |-> "none", pc |-> "idle", tokenId |-> Null, token |-> Null,
            user |-> Null, sct |-> Null, snap |-> NoRec, at |-> NullDate,
            resp |-> NoResp]

VARIABLES
    now,        \* the server clock, in ticks
    ttl,        \* parsedConfig.tokenExpirationMinutes, in ticks
    nTokens,    \* number of generate calls so far (ids 1..nTokens are issued)
    store,      \* the qrToken table: a function from the ids present to records
    sessions,   \* the session table of the host framework
    reqs,       \* the requests: inputs, position, findOne snapshot, response
    rate,       \* the configured endpoint paths and the rate limiter's window
    client,     \* one startQRAuth flow of a requesting device
    scan        \* one handleQRCodeScan call of a scanning device

vars == <<now, ttl, nTokens, store, sessions, reqs, rate, client, scan>>

\* ------------------------------------------------------------ the store
\* adapter.findOne({where: id = tokenId})
FindById(s, id) == IF id \in DOMAIN s THEN s[id] ELSE NoRec

\* adapter.findOne({where: sessionCreationToken = t})
FindBySct(s, t) ==
    IF \E id \in DOMAIN s : s[id].sessionCreationToken = t
    THEN s[CHOOSE id \in DOMAIN s : s[id].sessionCreationToken = t]
    ELSE NoRec

\* (a delete whose where clause matches no row)
DeleteByIdNoMatch(s, id) == s

\* adapter.delete({where: id = tokenId}): deleting a missing record is a no-op
DeleteById(s, id) == [i \in DOMAIN s \ {id} |-> s[i]]

\* (a record whose lifetime ignores the configured tokenExpirationMinutes)
NewRecordFixedTtl(id, t) ==
    [found |-> TRUE, id |-> id, token |-> SecretOf(id), createdAt |-> t,
     expiresAt |-> t + SctTtl, isUsed |-> FALSE, userId |-> Null,
     verifiedAt |-> NullDate, sessionCreationToken |-> Null,
     sessionCreationTokenExpiresAt |-> NullDate]

\* adapter.create of generateToken
NewRecord(id, t) ==
    [found |-> TRUE, id |-> id, token |-> SecretOf(id), createdAt |-> t,
     expiresAt |-> t + ttl, isUsed |-> FALSE, userId |-> Null,
     verifiedAt |-> NullDate, sessionCreationToken |-> Null,
     sessionCreationTokenExpiresAt |-> NullDate]

\* ------------------------------------------------------------ requests
Done(r) == reqs[r].pc = "done"
Idle(r) == reqs[r].pc = "idle"
\* requests are numbered in the order in which they arrive
NextSlot(r) == Idle(r) /\ \A q \in Reqs : q < r => ~Idle(q)

Reply(status, error) == [NoResp EXCEPT !.status = status, !.error = error]

\* the handler of request q returns response resp
Return(q, resp) ==
    [q EXCEPT !.pc = "done", !.token = Null, !.user = Null,
              !.snap = NoRec, !.at = NullDate, !.resp = resp]

\* ------------------------------------------------------------ endpoint paths
\* A path is the sequence of its characters.
QrPrefix == <<"/", "q", "r", "/">>
GeneratePath == QrPrefix \o <<"g", "e", "n", "e", "r", "a", "t", "e">>
VerifyPath == QrPrefix \o <<"v", "e", "r", "i", "f", "y">>
StatusPath == QrPrefix \o <<"s", "t", "a", "t", "u", "s">>
ClaimPath == QrPrefix \o <<"c", "l", "a", "i", "m", "-", "s", "e", "s", "s", "i", "o", "n">>

EndpointNames == {"generateToken", "verifyToken", "pollStatus", "claimSession"}

\* endpoints: z.object({...}).default({}) with the default of each path
DefaultEndpoints ==
    [e \in EndpointNames |->
        CASE e = "generateToken" -> GeneratePath
          [] e = "verifyToken" -> VerifyPath
          [] e = "pollStatus" -> StatusPath
          [] e = "claimSession" -> ClaimPath]

\* no request has been routed yet
NoRouted == [endpoint |-> "none", matched |-> FALSE, rejected |-> FALSE]

DefaultRate == [endpoints |-> DefaultEndpoints, hits |-> 0, age |-> 0, last |-> NoRouted]

\* A path the configuration may name for an endpoint: its default, a custom
\* path under /qr/ and a custom path elsewhere (endpoints.* is any z.string()).
CustomUnderQr(e) == DefaultEndpoints[e] \o <<"2">>
CustomElsewhere(e) == <<"/", "a", "u", "t", "h">> \o DefaultEndpoints[e]
PathChoices(e) == {DefaultEndpoints[e], CustomUnderQr(e), CustomElsewhere(e)}
EndpointConfigs == {f \in [EndpointNames -> UNION {PathChoices(e) : e \in EndpointNames}] :
                        \A e \in EndpointNames : f[e] \in PathChoices(e)}

\* A startQRAuth flow that has not been started. pollInterval and
\* expirationTimeout say whether the timer is armed; polls and claims count the
\* requests in flight, sent and claimsSent the requests sent so far, onSuccess
\* and onError the callback invocations. srv is what the server holds for the
\* flow's token. toClaim holds the sessionCreationTokens the flow has sent a
\* claim with, delivered the claim requests whose response it has received,
\* observedUser the userId of the completed status it acted on, sessionToken
\* the session token handed to onSuccess.
IdleClient ==
    [phase |-> "idle", pollInterval |-> FALSE, expirationTimeout |-> FALSE,
     polls |-> 0, claims |-> 0, sent |-> 0, claimsSent |-> 0,
     onSuccess |-> 0, onError |-> 0, srv |-> "pending",
     expiredSeen |-> FALSE, fired |-> FALSE, cleaned |-> FALSE,
     toClaim |-> {}, delivered |-> {}, observedUser |-> Null,
     sessionToken |-> Null]

\* ------------------------------------------------------------ scanned codes
\* The string a scanner hands over: text that JSON.parse accepts or not, and
\* the three fields of the decoded object, each present or falsy.
NoUrl == ""
ServerUrl == "https://server"
Payloads ==
    [json : BOOLEAN, tokenId : {Null, TokenIdOf(1)},
     token : {Null, SecretOf(TokenIdOf(1)), WrongSecret},
     serverUrl : {NoUrl, ServerUrl}]

NoPayload == [json |-> FALSE, tokenId |-> Null, token |-> Null, serverUrl |-> NoUrl]

\* data: null
NoData == [kind |-> "none", tokenId |-> Null, token |-> Null, serverUrl |-> NoUrl]

\* How the verify request settles: $fetch resolves with data or with an error
\* object, or it rejects with an Error whose message speaks of a timeout, of
\* the network, of JSON or of something else, or with a value that is no Error.
NoOutcome == [settle |-> "none", isError |-> FALSE, about |-> "none"]
Outcomes ==
    {[settle |-> "data", isError |-> FALSE, about |-> "none"],
     [settle |-> "error", isError |-> FALSE, about |-> "none"]}
    \cup [settle : {"throw"}, isError : {TRUE}, about : {"timeout", "network", "JSON", "other"}]
    \cup {[settle |-> "throw", isError |-> FALSE, about |-> "none"]}

\* a scan that has not been handled
IdleScan ==
    [variant |-> "native", payload |-> NoPayload, phase |-> "scanned",
     sent |-> FALSE, outcome |-> NoOutcome,
     result |-> [data |-> NoData, error |-> ""]]

Init ==
    /\ now = 0
    /\ ttl \in TtlChoices
    /\ nTokens = 0
    /\ store = << >>
    /\ sessions = {[token |-> DeviceSessionOf(u), userId |-> u, by |-> 0] : u \in Users}
    /\ reqs = [r \in Reqs |-> IdleReq]
    /\ rate = DefaultRate
    /\ client = IdleClient
    /\ scan = IdleScan

\* the clock advances
Tick ==
    /\ now < MaxTime
    /\ now' = now + 1
    /\ UNCHANGED <<ttl, nTokens, store, sessions, reqs, rate, client, scan>>

\* the handler of POST /qr/generate: a fresh id and one adapter.create
GenerateHandler ==
    /\ nTokens' = nTokens + 1
    /\ LET id == TokenIdOf(nTokens + 1) IN
       store' = [i \in DOMAIN store \cup {id} |->
                    IF i = id THEN NewRecord(id, now) ELSE store[i]]
    /\ UNCHANGED <<now, ttl, sessions, reqs, rate, client, scan>>

\* POST /qr/generate
GenerateToken ==
    /\ nTokens < MaxTokens
    /\ GenerateHandler

\* ------------------------------------------------------------ rate limit
RateMax == 10
RateWindow == 60
SecPerStep == 20

\* path.startsWith(prefix)
StartsWith(path, prefix) ==
    /\ Len(path) >= Len(prefix)
    /\ SubSeq(path, 1, Len(prefix)) = prefix

\* pathMatcher: (path) => path.startsWith("/qr/")
PathMatcher(path) == StartsWith(path, QrPrefix)

\* The plugin's one rule.
RateLimitRule == [max |-> RateMax, window |-> RateWindow]

\* A request arrives at the path the configuration gives endpoint e. The rule
\* applies to it only if pathMatcher accepts the path; a request the rule
\* applies to is counted, and rejected once max were counted in the window.
RateRequest(e) ==
    LET path == rate.endpoints[e]
        fresh == rate.age * SecPerStep >= RateLimitRule.window
        hits == IF fresh THEN 0 ELSE rate.hits
        age == IF fresh THEN 0 ELSE rate.age
    IN  /\ rate' =
            IF ~PathMatcher(path)
              THEN [rate EXCEPT !.last = [endpoint |-> e, matched |-> FALSE, rejected |-> FALSE]]
            ELSE IF hits >= RateLimitRule.max
              THEN [rate EXCEPT !.hits = hits, !.age = age,
                        !.last = [endpoint |-> e, matched |-> TRUE, rejected |-> TRUE]]
            ELSE [rate EXCEPT !.hits = hits + 1, !.age = age,
                        !.last = [endpoint |-> e, matched |-> TRUE, rejected |-> FALSE]]
        /\ UNCHANGED <<now, ttl, nTokens, store, sessions, reqs, client, scan>>

\* SecPerStep seconds of the window pass.
RateElapse ==
    /\ rate.age * SecPerStep < RateLimitRule.window
    /\ rate' = [rate EXCEPT !.age = @ + 1]
    /\ UNCHANGED <<now, ttl, nTokens, store, sessions, reqs, client, scan>>

RateInit ==
    /\ now = 0
    /\ ttl = DefaultTtlMs \div MsPerTick
    /\ nTokens = 0
    /\ store = << >>
    /\ sessions = {[token |-> DeviceSessionOf(u), userId |-> u, by |-> 0] : u \in Users}
    /\ reqs = [r \in Reqs |-> IdleReq]
    /\ rate \in {[DefaultRate EXCEPT !.endpoints = f] : f \in EndpointConfigs}
    /\ client = IdleClient
    /\ scan = IdleScan

RateNext == (\E e \in EndpointNames : RateRequest(e)) \/ RateElapse

RateSpec == RateInit /\ [][RateNext]_vars

\* ------------------------------------------------------------ verify
\* (an update that binds the user only when the row has none yet)
MarkUsedKeepsUser(s, id, userId, t, sct) ==
    [i \in DOMAIN s |->
        IF i = id
        THEN [s[i] EXCEPT !.isUsed = TRUE,
                          !.userId = IF s[i].userId # Null THEN s[i].userId ELSE userId,
                          !.verifiedAt = t, !.sessionCreationToken = sct,
                          !.sessionCreationTokenExpiresAt = t + SctTtl]
        ELSE s[i]]

\* (an update that leaves isUsed out)
MarkUsedNoFlag(s, id, userId, t, sct) ==
    [i \in DOMAIN s |->
        IF i = id
        THEN [s[i] EXCEPT !.userId = userId,
                          !.verifiedAt = t, !.sessionCreationToken = sct,
                          !.sessionCreationTokenExpiresAt = t + SctTtl]
        ELSE s[i]]

\* adapter.update({where: id = tokenId, update: {...}}) of verifyToken: the
\* row with that id, when there is one, gets the five fields
MarkUsed(s, id, userId, t, sct) ==
    [i \in DOMAIN s |->
        IF i = id
        THEN [s[i] EXCEPT !.isUsed = TRUE, !.userId = userId,
                          !.verifiedAt = t, !.sessionCreationToken = sct,
                          !.sessionCreationTokenExpiresAt = t + SctTtl]
        ELSE s[i]]

\* (an expiry check that grants one more tick)
FirstPhaseExpiredLate(rec, t) == rec.expiresAt + 1 < t

\* new Date(qrToken.expiresAt) < new Date()
FirstPhaseExpired(rec, t) == rec.expiresAt < t

\* (a comparison that only asks for both values to be present)
SecretMatchesLoose(rec, token) == rec.token # Null /\ token # Null

\* qrToken.token !== token, negated
SecretMatches(rec, token) == rec.token = token

\* POST /qr/verify arrives: body validation and the session check, which
\* touch no store
VerifyCall(r, tokenId, token, user) ==
    /\ NextSlot(r)
    /\ LET q == [IdleReq EXCEPT !.kind = "verify", !.tokenId = tokenId,
                                !.token = token, !.user = user]
       IN reqs' = [reqs EXCEPT ![r] =
            IF tokenId = Null \/ token = Null
            THEN Return(q, Reply(400, "Token ID and token are required"))
            ELSE IF user = Null
            THEN Return(q, Reply(401, "No authenticated user"))
            ELSE [q EXCEPT !.pc = "v_find"]]
    /\ UNCHANGED <<now, ttl, nTokens, store, sessions, rate, client, scan>>

\* (a check sequence without the isUsed test)
VerifyFindNoUsedCheck(r) ==
    /\ reqs[r].pc = "v_find"
    /\ LET rec == FindById(store, reqs[r].tokenId)
           q == [reqs[r] EXCEPT !.snap = rec, !.at = now]
       IN reqs' = [reqs EXCEPT ![r] =
            IF ~rec.found
            THEN Return(q, Reply(404, "Token not found"))
            ELSE IF ~SecretMatches(rec, reqs[r].token)
            THEN Return(q, Reply(401, "Invalid token"))
            ELSE IF FirstPhaseExpired(rec, now)
            THEN [q EXCEPT !.pc = "v_delete"]
            ELSE [q EXCEPT !.pc = "v_update"]]
    /\ UNCHANGED <<now, ttl, nTokens, store, sessions, rate, client, scan>>

\* findOne resolves; the checks on the row that was read
VerifyFind(r) ==
    /\ reqs[r].pc = "v_find"
    /\ LET rec == FindById(store, reqs[r].tokenId)
           q == [reqs[r] EXCEPT !.snap = rec, !.at = now]
       IN reqs' = [reqs EXCEPT ![r] =
            IF ~rec.found
            THEN Return(q, Reply(404, "Token not found"))
            ELSE IF ~SecretMatches(rec, reqs[r].token)
            THEN Return(q, Reply(401, "Invalid token"))
            ELSE IF FirstPhaseExpired(rec, now)
            THEN [q EXCEPT !.pc = "v_delete"]
            ELSE IF rec.isUsed
            THEN Return(q, Reply(409, "Token already used"))
            ELSE [q EXCEPT !.pc = "v_update"]]
    /\ UNCHANGED <<now, ttl, nTokens, store, sessions, rate, client, scan>>

\* the expired token is cleaned up
VerifyDelete(r) ==
    /\ reqs[r].pc = "v_delete"
    /\ store' = DeleteById(store, reqs[r].tokenId)
    /\ reqs' = [reqs EXCEPT ![r] = Return(reqs[r], Reply(410, "Token expired"))]
    /\ UNCHANGED <<now, ttl, nTokens, sessions, rate, client, scan>>

\* (the single-step design: verify itself creates the session)
VerifyUpdateCreatesSession(r) ==
    /\ reqs[r].pc = "v_update"
    /\ store' = MarkUsed(store, reqs[r].tokenId, reqs[r].user, reqs[r].at, SctOf(r))
    /\ sessions' = sessions \cup
            {[token |-> SessionTokenOf(r), userId |-> reqs[r].user, by |-> r]}
    /\ reqs' = [reqs EXCEPT ![r] = Return(reqs[r],
                    [NoResp EXCEPT !.status = 200,
                                   !.userId = reqs[r].user,
                                   !.sessionCreationToken = SctOf(r)])]
    /\ UNCHANGED <<now, ttl, nTokens, rate, client, scan>>

\* the token is marked used and the session creation token is stored; the
\* dates and the uuid were computed before the update was awaited
VerifyUpdate(r) ==
    /\ reqs[r].pc = "v_update"
    /\ store' = MarkUsed(store, reqs[r].tokenId, reqs[r].user, reqs[r].at, SctOf(r))
    /\ reqs' = [reqs EXCEPT ![r] = Return(reqs[r],
                    [NoResp EXCEPT !.status = 200,
                                   !.userId = reqs[r].user,
                                   !.sessionCreationToken = SctOf(r)])]
    /\ UNCHANGED <<now, ttl, nTokens, sessions, rate, client, scan>>

\* what a caller of verify can send: an issued id or one that never existed,
\* with the secret of that id or another value, as one of the users; a body
\* with a field missing; a request without a session
IssuedIds == {TokenIdOf(k) : k \in 1..nTokens}

VerifyInputs ==
    {<<id, SecretOf(id), u>> : id \in IssuedIds, u \in Users}
    \cup {<<id, WrongSecret, 1>> : id \in IssuedIds \cup {BogusId}}
    \cup {<<Null, WrongSecret, 1>>}
    \cup {<<id, Null, 1>> : id \in IssuedIds}
    \cup {<<id, SecretOf(id), Null>> : id \in IssuedIds}

Verify ==
    \/ \E r \in Reqs, in \in VerifyInputs : VerifyCall(r, in[1], in[2], in[3])
    \/ \E r \in Reqs : VerifyFind(r)
    \/ \E r \in Reqs : VerifyDelete(r)
    \/ \E r \in Reqs : VerifyUpdate(r)

\* ------------------------------------------------------------ status
\* adapter.findOne({model: "user", where: id = userId})
UserFound(userId) == userId \in Users

\* (a comparison that still discloses at the instant of expiry)
SctLiveInclusive(rec, t) == rec.sessionCreationTokenExpiresAt >= t

\* new Date(qrToken.sessionCreationTokenExpiresAt) > new Date()
SctLive(rec, t) == rec.sessionCreationTokenExpiresAt > t

\* the response that carries the session creation token
CompletedReply(rec) ==
    [NoResp EXCEPT !.status = 200, !.pstatus = "completed",
                   !.userId = rec.userId,
                   !.sessionCreationToken = rec.sessionCreationToken]

\* (a final response that tests the row instead of its isUsed flag)
StatusReplyAnyRow(rec) ==
    [NoResp EXCEPT !.status = 200,
                   !.pstatus = IF rec.found THEN "completed" ELSE "pending",
                   !.userId = rec.userId]

\* the response at the end of the handler
StatusReply(rec) ==
    [NoResp EXCEPT !.status = 200,
                   !.pstatus = IF rec.isUsed THEN "completed" ELSE "pending",
                   !.userId = rec.userId]

\* GET /qr/status arrives
PollCall(r, tokenId) ==
    /\ NextSlot(r)
    /\ LET q == [IdleReq EXCEPT !.kind = "poll", !.tokenId = tokenId]
       IN reqs' = [reqs EXCEPT ![r] =
            IF tokenId = Null
            THEN Return(q, Reply(400, "Token ID required"))
            ELSE [q EXCEPT !.pc = "p_find"]]
    /\ UNCHANGED <<now, ttl, nTokens, store, sessions, rate, client, scan>>

\* findOne resolves; the checks on the row that was read
PollFind(r) ==
    /\ reqs[r].pc = "p_find"
    /\ LET rec == FindById(store, reqs[r].tokenId)
           q == [reqs[r] EXCEPT !.snap = rec]
       IN reqs' = [reqs EXCEPT ![r] =
            IF ~rec.found
            THEN Return(q, Reply(404, "Token not found"))
            ELSE IF FirstPhaseExpired(rec, now)
            THEN [q EXCEPT !.pc = "p_delete"]
            ELSE IF rec.isUsed
            THEN [q EXCEPT !.pc = "p_user"]
            ELSE Return(q, StatusReply(rec))]
    /\ UNCHANGED <<now, ttl, nTokens, store, sessions, rate, client, scan>>

\* (a delete that fails when the row is no longer there)
PollDeleteMissingFails(r) ==
    /\ reqs[r].pc = "p_delete"
    /\ store' = DeleteById(store, reqs[r].tokenId)
    /\ reqs' = [reqs EXCEPT ![r] =
            IF reqs[r].tokenId \in DOMAIN store
            THEN Return(reqs[r], Reply(410, "Token expired"))
            ELSE Return(reqs[r], Reply(500, "Record to delete does not exist"))]
    /\ UNCHANGED <<now, ttl, nTokens, sessions, rate, client, scan>>

\* the expired token is cleaned up
PollDelete(r) ==
    /\ reqs[r].pc = "p_delete"
    /\ store' = DeleteById(store, reqs[r].tokenId)
    /\ reqs' = [reqs EXCEPT ![r] = Return(reqs[r], Reply(410, "Token expired"))]
    /\ UNCHANGED <<now, ttl, nTokens, sessions, rate, client, scan>>

\* (a status handler that clears the session creation token it hands out)
PollUserClearsSct(r) ==
    /\ reqs[r].pc = "p_user"
    /\ LET rec == reqs[r].snap
           live == /\ UserFound(rec.userId)
                   /\ rec.sessionCreationToken # Null
                   /\ SctLive(rec, now)
       IN /\ reqs' = [reqs EXCEPT ![r] =
                IF live THEN Return(reqs[r], CompletedReply(rec))
                ELSE Return(reqs[r], StatusReply(rec))]
          /\ store' = [i \in DOMAIN store |->
                         IF live /\ i = reqs[r].tokenId
                         THEN [store[i] EXCEPT !.sessionCreationToken = Null,
                                               !.sessionCreationTokenExpiresAt = NullDate]
                         ELSE store[i]]
    /\ UNCHANGED <<now, ttl, nTokens, sessions, rate, client, scan>>

\* (a status handler that reads the userId again when it answers)
PollUserRereads(r) ==
    /\ reqs[r].pc = "p_user"
    /\ LET rec == reqs[r].snap
           cur == FindById(store, reqs[r].tokenId)
       IN reqs' = [reqs EXCEPT ![r] =
            IF /\ UserFound(rec.userId)
               /\ rec.sessionCreationToken # Null
               /\ SctLive(rec, now)
            THEN Return(reqs[r], CompletedReply([rec EXCEPT !.userId = cur.userId]))
            ELSE Return(reqs[r], StatusReply(rec))]
    /\ UNCHANGED <<now, ttl, nTokens, store, sessions, rate, client, scan>>

\* the user lookup of a used token resolves
PollUser(r) ==
    /\ reqs[r].pc = "p_user"
    /\ LET rec == reqs[r].snap IN
       reqs' = [reqs EXCEPT ![r] =
            IF /\ UserFound(rec.userId)
               /\ rec.sessionCreationToken # Null
               /\ SctLive(rec, now)
            THEN Return(reqs[r], CompletedReply(rec))
            ELSE Return(reqs[r], StatusReply(rec))]
    /\ UNCHANGED <<now, ttl, nTokens, store, sessions, rate, client, scan>>

PollInputs == IssuedIds \cup {BogusId, Null}

Poll ==
    \/ \E r \in Reqs, id \in PollInputs : PollCall(r, id)
    \/ \E r \in Reqs : PollFind(r)
    \/ \E r \in Reqs : PollDelete(r)
    \/ \E r \in Reqs : PollUser(r)

\* ------------------------------------------------------------ claim-session
\* (an update that clears the token and leaves its expiry)
ClearSctOnlyToken(s, t) ==
    [i \in DOMAIN s |->
        IF s[i].sessionCreationToken = t
        THEN [s[i] EXCEPT !.sessionCreationToken = Null]
        ELSE s[i]]

\* (an update that leaves the session creation token in place)
ClearSctKept(s, t) == s

\* adapter.update({where: sessionCreationToken = t, update: {both null}})
ClearSct(s, t) ==
    [i \in DOMAIN s |->
        IF s[i].sessionCreationToken = t
        THEN [s[i] EXCEPT !.sessionCreationToken = Null,
                          !.sessionCreationTokenExpiresAt = NullDate]
        ELSE s[i]]

\* (the comparison the wrong way round)
SctExpiredReversed(rec, t) == rec.sessionCreationTokenExpiresAt >= t

\* tokenExpiresAt <= now
SctExpired(rec, t) == rec.sessionCreationTokenExpiresAt <= t

\* POST /qr/claim-session arrives
ClaimCall(r, sct) ==
    /\ NextSlot(r)
    /\ LET q == [IdleReq EXCEPT !.kind = "claim", !.sct = sct]
       IN reqs' = [reqs EXCEPT ![r] =
            IF sct = Null
            THEN Return(q, Reply(400, "Session creation token is required"))
            ELSE [q EXCEPT !.pc = "c_find"]]
    /\ UNCHANGED <<now, ttl, nTokens, store, sessions, rate, client, scan>>

\* (a check sequence that clears an expired session creation token)
ClaimFindClearsExpired(r) ==
    /\ reqs[r].pc = "c_find"
    /\ LET rec == FindBySct(store, reqs[r].sct)
           q == [reqs[r] EXCEPT !.snap = rec]
       IN /\ reqs' = [reqs EXCEPT ![r] =
                IF ~rec.found
                THEN Return(q, Reply(404, "Invalid session creation token"))
                ELSE IF ~rec.isUsed \/ rec.userId = Null
                THEN Return(q, Reply(400, "QR token not properly verified"))
                ELSE IF SctExpired(rec, now)
                THEN Return(q, Reply(410, "Session creation token expired"))
                ELSE IF ~UserFound(rec.userId)
                THEN Return(q, Reply(404, "User not found"))
                ELSE [q EXCEPT !.pc = "c_create"]]
          /\ store' = IF rec.found /\ rec.isUsed /\ SctExpired(rec, now)
                         THEN ClearSct(store, reqs[r].sct)
                         ELSE store
    /\ UNCHANGED <<now, ttl, nTokens, sessions, rate, client, scan>>

\* findOne by sessionCreationToken resolves; the checks on the row that was
\* read, and the lookup of its user
ClaimFind(r) ==
    /\ reqs[r].pc = "c_find"
    /\ LET rec == FindBySct(store, reqs[r].sct)
           q == [reqs[r] EXCEPT !.snap = rec]
       IN reqs' = [reqs EXCEPT ![r] =
            IF ~rec.found
            THEN Return(q, Reply(404, "Invalid session creation token"))
            ELSE IF ~rec.isUsed \/ rec.userId = Null
            THEN Return(q, Reply(400, "QR token not properly verified"))
            ELSE IF SctExpired(rec, now)
            THEN Return(q, Reply(410, "Session creation token expired"))
            ELSE IF ~UserFound(rec.userId)
            THEN Return(q, Reply(404, "User not found"))
            ELSE [q EXCEPT !.pc = "c_create"]]
    /\ UNCHANGED <<now, ttl, nTokens, store, sessions, rate, client, scan>>

\* internalAdapter.createSession(qrToken.userId) resolves with a new session
\* (the cookie is then set on the response), or with nothing, or it throws
ClaimCreate(r) ==
    /\ reqs[r].pc = "c_create"
    /\ \/ /\ sessions' = sessions \cup
                {[token |-> SessionTokenOf(r), userId |-> reqs[r].snap.userId, by |-> r]}
          /\ reqs' = [reqs EXCEPT ![r].pc = "c_update"]
       \/ /\ reqs' = [reqs EXCEPT ![r] = Return(reqs[r], Reply(500, "Failed to create session"))]
          /\ UNCHANGED sessions
    /\ UNCHANGED <<now, ttl, nTokens, store, rate, client, scan>>

\* (a response that hands out the session of the scanning device)
ClaimUpdateSharesSession(r) ==
    /\ reqs[r].pc = "c_update"
    /\ store' = ClearSct(store, reqs[r].sct)
    /\ reqs' = [reqs EXCEPT ![r] = Return(reqs[r],
                    [NoResp EXCEPT !.status = 200,
                                   !.userId = reqs[r].snap.userId,
                                   !.sessionToken = DeviceSessionOf(reqs[r].snap.userId)])]
    /\ UNCHANGED <<now, ttl, nTokens, sessions, rate, client, scan>>

\* the session creation token is cleared and the session is returned; or
\* setSessionCookie or the update rejects and the catch answers 500
ClaimUpdate(r) ==
    /\ reqs[r].pc = "c_update"
    /\ \/ /\ store' = ClearSct(store, reqs[r].sct)
          /\ reqs' = [reqs EXCEPT ![r] = Return(reqs[r],
                          [NoResp EXCEPT !.status = 200,
                                         !.userId = reqs[r].snap.userId,
                                         !.sessionToken = SessionTokenOf(r)])]
       \/ /\ reqs' = [reqs EXCEPT ![r] =
                          Return(reqs[r], Reply(500, "Failed to create session: error"))]
          /\ UNCHANGED store
    /\ UNCHANGED <<now, ttl, nTokens, sessions, rate, client, scan>>

\* the session creation tokens that a response has disclosed
Disclosed ==
    {reqs[q].resp.sessionCreationToken : q \in {x \in Reqs : Done(x)}} \ {Null}

ClaimInputs == Disclosed \cup {BogusSct, Null}

Claim ==
    \/ \E r \in Reqs, t \in ClaimInputs : ClaimCall(r, t)
    \/ \E r \in Reqs : ClaimFind(r)
    \/ \E r \in Reqs : ClaimCreate(r)
    \/ \E r \in Reqs : ClaimUpdate(r)

\* ------------------------------------------------------------ client
\* startQRAuth up to the return: the generate request, then both timers are
\* armed; a failed generate returns the error and a cleanup that does nothing.
StartQRAuth ==
    /\ client.phase = "idle"
    /\ \E ok \in BOOLEAN :
        client' = IF ok
                    THEN [client EXCEPT !.phase = "polling", !.pollInterval = TRUE,
                                        !.expirationTimeout = TRUE]
                    ELSE [client EXCEPT !.phase = "failed"]
    /\ UNCHANGED <<now, ttl, nTokens, store, sessions, reqs, rate, scan>>

\* The interval fires: the callback sends a poll request and awaits it.
PollTick ==
    /\ client.pollInterval
    /\ client.sent < MaxPolls
    /\ client' = [client EXCEPT !.polls = @ + 1, !.sent = @ + 1]
    /\ UNCHANGED <<now, ttl, nTokens, store, sessions, reqs, rate, scan>>

\* What the status endpoint answers for the flow's token.
StatusOf(srv) ==
    CASE srv = "pending" -> [status |-> 200, pstatus |-> "pending", sct |-> FALSE]
      [] srv = "completed" -> [status |-> 200, pstatus |-> "completed", sct |-> TRUE]
      [] srv = "claimed" -> [status |-> 200, pstatus |-> "completed", sct |-> FALSE]
      [] srv = "expired" -> [status |-> 410, pstatus |-> "none", sct |-> FALSE]

\* responseData?.status === "completed" && responseData?.sessionCreationToken
CompletedWithSct(reply) == reply.pstatus = "completed" /\ reply.sct

\* catch of the poll callback: clearInterval, onError
PollCatch(c) == [c EXCEPT !.pollInterval = FALSE, !.onError = @ + 1]

\* An awaited poll request settles with the server's answer. An error answer
\* either resolves to an object without a status or rejects, as $fetch is
\* set up; a 200 answer resolves.
PollReply ==
    /\ client.polls > 0
    /\ LET reply == StatusOf(client.srv)
           c == [client EXCEPT !.polls = @ - 1,
                               !.expiredSeen = @ \/ reply.status # 200]
       IN  \E rejects \in BOOLEAN :
             /\ rejects => reply.status # 200
             /\ client' =
                  IF rejects THEN PollCatch(c)
                  ELSE IF CompletedWithSct(reply)
                    THEN [c EXCEPT !.pollInterval = FALSE,
                                   !.claims = @ + 1, !.claimsSent = @ + 1]
                  ELSE c
    /\ UNCHANGED <<now, ttl, nTokens, store, sessions, reqs, rate, scan>>

\* An awaited poll request fails without an answer.
PollFails ==
    /\ client.polls > 0
    /\ client' = PollCatch([client EXCEPT !.polls = @ - 1])
    /\ UNCHANGED <<now, ttl, nTokens, store, sessions, reqs, rate, scan>>

\* The awaited claim request settles: the server hands the session out while
\* the sessionCreationToken is there, and answers with an error otherwise; a
\* request that fails without an answer is caught the same way.
ClaimReply ==
    /\ client.claims > 0
    /\ \E fails \in BOOLEAN :
        client' =
            IF ~fails /\ client.srv = "completed"
              THEN [client EXCEPT !.claims = @ - 1, !.onSuccess = @ + 1,
                                  !.srv = "claimed"]
              ELSE [client EXCEPT !.claims = @ - 1, !.onError = @ + 1]
    /\ UNCHANGED <<now, ttl, nTokens, store, sessions, reqs, rate, scan>>

\* (a timeout callback that reports the expiry and leaves the interval armed)
ExpirationTimeoutKeepsPolling ==
    /\ client.expirationTimeout
    /\ client' = [client EXCEPT !.expirationTimeout = FALSE, !.fired = TRUE,
                                !.onError = @ + 1]
    /\ UNCHANGED <<now, ttl, nTokens, store, sessions, reqs, rate, scan>>

\* The expiration timeout fires: clearInterval, onError("QR code has expired").
ExpirationTimeout ==
    /\ client.expirationTimeout
    /\ client' = [client EXCEPT !.expirationTimeout = FALSE, !.fired = TRUE,
                                !.pollInterval = FALSE, !.onError = @ + 1]
    /\ UNCHANGED <<now, ttl, nTokens, store, sessions, reqs, rate, scan>>

\* The caller calls the cleanup handle: clearInterval, clearTimeout.
Cleanup ==
    /\ client.phase = "polling"
    /\ ~client.cleaned
    /\ client' = [client EXCEPT !.pollInterval = FALSE,
                                !.expirationTimeout = FALSE, !.cleaned = TRUE]
    /\ UNCHANGED <<now, ttl, nTokens, store, sessions, reqs, rate, scan>>

\* The server side of the flow's token moves on: the authenticated device
\* verifies it, its sessionCreationToken runs out, or the token expires.
ServerAdvance ==
    /\ client.phase = "polling"
    /\ \E to \in {"completed", "claimed", "expired"} :
        /\ \/ client.srv = "pending" /\ to = "completed"
           \/ client.srv = "completed" /\ to = "claimed"
           \/ client.srv # "expired" /\ to = "expired"
        /\ client' = [client EXCEPT !.srv = to]
    /\ UNCHANGED <<now, ttl, nTokens, store, sessions, reqs, rate, scan>>

ClientInit ==
    /\ now = 0
    /\ ttl = DefaultTtlMs \div MsPerTick
    /\ nTokens = 0
    /\ store = << >>
    /\ sessions = {[token |-> DeviceSessionOf(u), userId |-> u, by |-> 0] : u \in Users}
    /\ reqs = [r \in Reqs |-> IdleReq]
    /\ rate = DefaultRate
    /\ client = IdleClient
    /\ scan = IdleScan

ClientNext ==
    \/ StartQRAuth \/ PollTick \/ PollReply \/ PollFails \/ ClaimReply
    \/ ExpirationTimeout \/ Cleanup \/ ServerAdvance

ClientSpec == ClientInit /\ [][ClientNext]_vars

\* The client under fair timer scheduling: a timeout that stays armed fires.
ClientFairSpec ==
    /\ ClientSpec
    /\ WF_vars(ExpirationTimeout)

\* ------------------------------------------------- client against server
\* One startQRAuth flow run against the endpoints: the flow's requests travel
\* to the server, are handled there step by step, and their responses travel
\* back. No TTL elapses, no request is lost, session creation does not fail
\* and the caller does not call cleanup.
MaxVerifies == MaxReqs - 1

\* the generate request of startQRAuth is handled
FlowGenerate ==
    /\ client.phase = "idle"
    /\ GenerateToken

\* its response reaches the client
FlowStartQRAuth ==
    /\ nTokens > 0
    /\ StartQRAuth

\* a scanning device sends a verify request for the code on display
FlowVerifyCall ==
    /\ client.phase = "polling"
    /\ Cardinality({q \in Reqs : reqs[q].kind = "verify"}) < MaxVerifies
    /\ \E r \in Reqs, in \in VerifyInputs : VerifyCall(r, in[1], in[2], in[3])

\* a poll request of the flow reaches the status endpoint
FlowPollArrives ==
    /\ Cardinality({q \in Reqs : reqs[q].kind = "poll"}) < client.polls
    /\ \E r \in Reqs : PollCall(r, TokenIdOf(1))

\* the response of poll request r reaches the poll callback
FlowPollReply(r) ==
    /\ reqs[r].kind = "poll" /\ Done(r)
    /\ LET resp == reqs[r].resp
           reply == [status |-> resp.status, pstatus |-> resp.pstatus,
                     sct |-> resp.sessionCreationToken # Null]
           c == [client EXCEPT !.polls = @ - 1,
                               !.expiredSeen = @ \/ reply.status # 200]
       IN  \E rejects \in BOOLEAN :
             /\ rejects => reply.status # 200
             /\ client' =
                  IF rejects THEN PollCatch(c)
                  ELSE IF CompletedWithSct(reply)
                    THEN [c EXCEPT !.pollInterval = FALSE,
                                   !.claims = @ + 1, !.claimsSent = @ + 1,
                                   !.toClaim = @ \cup {resp.sessionCreationToken},
                                   !.observedUser = resp.userId]
                  ELSE c
    /\ reqs' = [reqs EXCEPT ![r] = IdleReq]
    /\ UNCHANGED <<now, ttl, nTokens, store, sessions, rate, scan>>

\* a claim request of the flow reaches the claim-session endpoint
FlowClaimArrives ==
    /\ Cardinality({q \in Reqs : reqs[q].kind = "claim"}) < client.claimsSent
    /\ \E r \in Reqs, t \in client.toClaim : ClaimCall(r, t)

\* createSession resolves with a session
FlowClaimCreate(r) ==
    /\ ClaimCreate(r)
    /\ reqs'[r].pc = "c_update"

\* the response of claim request r reaches the poll callback
FlowClaimReply(r) ==
    /\ reqs[r].kind = "claim" /\ Done(r)
    /\ r \notin client.delivered
    /\ client' =
         IF reqs[r].resp.error # ""
           THEN [client EXCEPT !.claims = @ - 1, !.delivered = @ \cup {r},
                               !.onError = @ + 1]
           ELSE [client EXCEPT !.claims = @ - 1, !.delivered = @ \cup {r},
                               !.onSuccess = @ + 1,
                               !.sessionToken = reqs[r].resp.sessionToken]
    /\ UNCHANGED <<now, ttl, nTokens, store, sessions, reqs, rate, scan>>

\* time passes without any TTL elapsing
FlowTick ==
    /\ \A i \in DOMAIN store :
         /\ now + 1 <= store[i].expiresAt
         /\ store[i].sessionCreationTokenExpiresAt # NullDate
              => now + 1 < store[i].sessionCreationTokenExpiresAt
    /\ \A r \in Reqs :
         reqs[r].pc = "v_update" => now + 1 < reqs[r].at + SctTtl
    /\ Tick

\* the cookie is set and the update resolves
FlowClaimUpdate(r) ==
    /\ ClaimUpdate(r)
    /\ reqs'[r].resp.status = 200

\* a step of the handler of request r (no handler reaches its eviction step,
\* as no TTL elapses)
FlowHandlerStep(r) ==
    \/ VerifyFind(r) \/ VerifyUpdate(r)
    \/ PollFind(r) \/ PollUser(r)
    \/ ClaimFind(r) \/ FlowClaimCreate(r) \/ FlowClaimUpdate(r)

FlowNext ==
    \/ FlowGenerate \/ FlowStartQRAuth \/ FlowVerifyCall
    \/ PollTick \/ FlowPollArrives \/ FlowClaimArrives
    \/ \E r \in Reqs : FlowHandlerStep(r)
    \/ \E r \in Reqs : FlowPollReply(r)
    \/ \E r \in Reqs : FlowClaimReply(r)
    \/ FlowTick

\* Poll ticks fire, requests and responses are delivered and handlers run.
FlowSpec ==
    /\ ClientInit
    /\ [][FlowNext]_vars
    /\ WF_vars(PollTick)
    /\ WF_vars(FlowPollArrives)
    /\ WF_vars(FlowClaimArrives)
    /\ \A r \in Reqs : /\ WF_vars(FlowHandlerStep(r))
                       /\ WF_vars(FlowPollReply(r))
                       /\ WF_vars(FlowClaimReply(r))

\* ------------------------------------------------------------ scanning
\* parseQRCode of the React Native client and of the web client: JSON.parse,
\* then the three fields are required.
ParseQRCode(variant, p) ==
    IF ~p.json
      THEN [data |-> NoData, error |-> "JSON.parse failed"]
    ELSE IF p.tokenId = Null \/ p.token = Null \/ p.serverUrl = NoUrl
      THEN [data |-> NoData,
            error |-> IF variant = "native" THEN "Invalid QR code data structure"
                                            ELSE "Invalid QR code format"]
    ELSE [data |-> [kind |-> "qr", tokenId |-> p.tokenId, token |-> p.token,
                    serverUrl |-> p.serverUrl],
          error |-> ""]

\* the parse step written out inside handleQRCodeScan of the React Native
\* client
InlineParse(p) ==
    IF ~p.json
      THEN [data |-> NoData, error |-> "JSON.parse failed"]
    ELSE IF p.tokenId = Null \/ p.token = Null
      THEN [data |-> NoData, error |-> "Invalid QR code data structure"]
    ELSE [data |-> [kind |-> "qr", tokenId |-> p.tokenId, token |-> p.token,
                    serverUrl |-> p.serverUrl],
          error |-> ""]

\* the data of a successful verify response
VerifiedData(d) == [d EXCEPT !.kind = "verified"]

\* {data: response.data || null, error: response.error || null}
Settled(d, o) ==
    IF o.settle = "data" THEN [data |-> VerifiedData(d), error |-> ""]
    ELSE [data |-> NoData, error |-> "response.error"]

\* what verifyQRScan returns for parsed data d when the request settles as o
VerifyQRScan(variant, d, o) ==
    IF o.settle # "throw" THEN Settled(d, o)
    ELSE [data |-> NoData,
          error |->
            IF ~o.isError THEN "Verification failed"
            ELSE IF variant = "web" THEN o.about
            ELSE IF o.about = "timeout" THEN "Request timeout. Please try again."
            ELSE IF o.about = "network"
              THEN "Network error. Please check your internet connection."
            ELSE o.about]

\* the catch of handleQRCodeScan of the React Native client
ScanCatch(o) ==
    [data |-> NoData,
     error |->
       IF ~o.isError THEN "QR scan failed"
       ELSE IF o.about = "timeout" THEN "Request timeout. Please try again."
       ELSE IF o.about = "network"
         THEN "Network error. Please check your internet connection."
       ELSE IF o.about = "JSON" THEN "Invalid QR code format."
       ELSE o.about]

\* handleQRCodeScan up to its first await: the parse; a rejected payload
\* returns, an accepted one sends the verify request.
ScanParse ==
    /\ scan.phase = "scanned"
    /\ LET parseResult == IF scan.variant = "native"
                            THEN InlineParse(scan.payload)
                            ELSE ParseQRCode(scan.variant, scan.payload)
       IN scan' =
            IF parseResult.error # ""
              THEN [scan EXCEPT !.phase = "returned", !.result = parseResult]
              ELSE [scan EXCEPT !.phase = "sent", !.sent = TRUE,
                                !.result = parseResult]
    /\ UNCHANGED <<now, ttl, nTokens, store, sessions, reqs, rate, client>>

\* the verify request settles and handleQRCodeScan returns
ScanSettle ==
    /\ scan.phase = "sent"
    /\ \E o \in Outcomes :
        scan' = [scan EXCEPT
                    !.phase = "returned", !.outcome = o,
                    !.result =
                        IF scan.variant = "web"
                          THEN VerifyQRScan("web", scan.result.data, o)
                        ELSE IF o.settle = "throw" THEN ScanCatch(o)
                        ELSE Settled(scan.result.data, o)]
    /\ UNCHANGED <<now, ttl, nTokens, store, sessions, reqs, rate, client>>

ScanInit ==
    /\ now = 0
    /\ ttl = DefaultTtlMs \div MsPerTick
    /\ nTokens = 0
    /\ store = << >>
    /\ sessions = {[token |-> DeviceSessionOf(u), userId |-> u, by |-> 0] : u \in Users}
    /\ reqs = [r \in Reqs |-> IdleReq]
    /\ rate = DefaultRate
    /\ client = IdleClient
    /\ scan \in {[IdleScan EXCEPT !.variant = v, !.payload = p] :
                    v \in {"native", "web"}, p \in Payloads}

ScanNext == ScanParse \/ ScanSettle

ScanSpec == ScanInit /\ [][ScanNext]_vars

\* ------------------------------------------------------------ server
Next == Tick \/ GenerateToken \/ Verify \/ Poll \/ Claim

Spec == Init /\ [][Next]_vars

\* The steps of the handler of request r once the request has arrived.
HandlerStep(r) ==
    \/ VerifyFind(r) \/ VerifyDelete(r) \/ VerifyUpdate(r)
    \/ PollFind(r) \/ PollDelete(r) \/ PollUser(r)
    \/ ClaimFind(r) \/ ClaimCreate(r) \/ ClaimUpdate(r)

\* The server under fair scheduling: the clock advances and every handler
\* that has started runs to its response.  Nothing makes a client send a
\* request, and the plugin registers no timer or background job of its own.
FairSpec ==
    /\ Spec
    /\ WF_vars(Tick)
    /\ \A r \in Reqs : WF_vars(HandlerStep(r))

\* The server with several generated tokens: generate is called up to
\* MaxGenerated times while the requests of the other endpoints, GenReqs of
\* them, are in flight or answered.
GenReqs == MaxReqs - 1

GenGenerate ==
    /\ nTokens < MaxGenerated
    /\ GenerateHandler

GenRequest ==
    /\ Verify \/ Poll \/ Claim
    /\ \A r \in Reqs : r > GenReqs => reqs'[r].pc = "idle"

GenNext == Tick \/ GenGenerate \/ GenRequest

GenSpec == Init /\ [][GenNext]_vars

\* ====================================================================
\* Properties
\* ====================================================================

\* C1: of the verify requests that carry the correct secret for one token id
\* and run concurrently, exactly one succeeds: two verify requests for the
\* same id never both return success.
C1_AtMostOneVerifySuccess ==
    \A r1, r2 \in Reqs :
        (/\ reqs[r1].kind = "verify" /\ reqs[r2].kind = "verify"
         /\ Done(r1) /\ Done(r2)
         /\ reqs[r1].resp.status = 200 /\ reqs[r2].resp.status = 200
         /\ reqs[r1].tokenId = reqs[r2].tokenId)
        => r1 = r2

\* C2: of the claimSession requests that carry one sessionCreationToken and
\* run concurrently, exactly one succeeds and creates a session: no two of
\* them return success, and no two sessions come from the same token.
C2_AtMostOneClaimSuccess ==
    \A r1, r2 \in Reqs :
        (/\ reqs[r1].kind = "claim" /\ reqs[r2].kind = "claim"
         /\ reqs[r1].sct # Null /\ reqs[r1].sct = reqs[r2].sct
         /\ \E s \in sessions : s.by = r1
         /\ \E s \in sessions : s.by = r2)
        => r1 = r2

\* C3: once a claimSession request with token T has returned success, every
\* claimSession request whose lookup of T runs afterwards is answered
\* 404 "Invalid session creation token" and creates no session.
C3_ClaimedTokenIsGone ==
    [][\A r \in Reqs :
          (/\ reqs[r].pc = "c_find" /\ reqs'[r].pc # "c_find"
           /\ \E q \in Reqs : /\ reqs[q].kind = "claim" /\ Done(q)
                              /\ reqs[q].resp.status = 200
                              /\ reqs[q].sct = reqs[r].sct)
          => /\ reqs'[r].pc = "done"
             /\ reqs'[r].resp.status = 404
             /\ reqs'[r].resp.error = "Invalid session creation token"
             /\ sessions' = sessions
             /\ ~\E s \in sessions : s.by = r]_vars

\* C3 witness: a claim of T returned success and a claim of the same T that
\* arrived later was answered 404.
C3_Witness ==
    \E q, r \in Reqs :
        /\ q < r
        /\ reqs[q].kind = "claim" /\ Done(q) /\ reqs[q].resp.status = 200
        /\ reqs[r].kind = "claim" /\ Done(r) /\ reqs[r].resp.status = 404
        /\ reqs[q].sct = reqs[r].sct

\* C4: a verify request with the correct secret whose expiry check runs at a
\* time now > expiresAt goes on to evict the record and is answered
\* 410 "Token expired"; it never marks the record used.
C4_ExpiredNeverVerifies ==
    [][\A r \in Reqs :
          /\ (/\ reqs[r].pc = "v_find" /\ reqs'[r].pc # "v_find"
              /\ reqs[r].tokenId \in DOMAIN store
              /\ store[reqs[r].tokenId].token = reqs[r].token
              /\ store[reqs[r].tokenId].expiresAt < now)
             => (reqs'[r].pc = "v_delete" /\ store' = store)
          /\ (reqs[r].pc = "v_delete" /\ reqs'[r].pc # "v_delete")
             => /\ reqs'[r].pc = "done"
                /\ reqs'[r].resp.status = 410
                /\ reqs'[r].resp.error = "Token expired"
                /\ reqs'[r].resp.sessionCreationToken = Null
                /\ \A i \in DOMAIN store' : i # reqs[r].tokenId /\ store'[i] = store[i]]_vars

\* C4 witness: a verify request that carried the correct secret was answered
\* 410 "Token expired".
C4_Witness ==
    \E r \in Reqs :
        /\ reqs[r].kind = "verify" /\ Done(r)
        /\ reqs[r].resp.status = 410

\* C5: a claimSession request that finds a verified record whose
\* sessionCreationTokenExpiresAt has passed is answered 410 "Session creation
\* token expired", creates no session and leaves the store as it was.
C5_ExpiredSctNotClaimable ==
    [][\A r \in Reqs :
          (/\ reqs[r].pc = "c_find" /\ reqs'[r].pc # "c_find"
           /\ \E i \in DOMAIN store :
                /\ store[i].sessionCreationToken = reqs[r].sct
                /\ store[i].isUsed /\ store[i].userId # Null
                /\ store[i].sessionCreationTokenExpiresAt < now)
          => /\ reqs'[r].pc = "done"
             /\ reqs'[r].resp.status = 410
             /\ reqs'[r].resp.error = "Session creation token expired"
             /\ reqs'[r].resp.sessionToken = Null
             /\ sessions' = sessions
             /\ store' = store]_vars

\* C5 witness: a claimSession request was answered 410.
C5_Witness ==
    \E r \in Reqs :
        /\ reqs[r].kind = "claim" /\ Done(r)
        /\ reqs[r].resp.status = 410

\* C6: a pollStatus request that read a used record holding a
\* sessionCreationToken whose sessionCreationTokenExpiresAt has passed when the
\* response is made reports expired, and never reports 'completed'.
C6_PollReportsExpiredSct ==
    [][\A r \in Reqs :
          (/\ reqs[r].kind = "poll" /\ ~Done(r) /\ reqs'[r].pc = "done"
           /\ reqs[r].snap.found /\ reqs[r].snap.isUsed
           /\ reqs[r].snap.sessionCreationToken # Null
           /\ reqs[r].snap.sessionCreationTokenExpiresAt < now)
          => /\ reqs'[r].resp.pstatus # "completed"
             /\ reqs'[r].resp.status = 410]_vars

\* C7: a pollStatus request that finds an unexpired record with used = false
\* reports 'pending' without a sessionCreationToken; and every
\* sessionCreationToken in a pollStatus response was returned by a successful
\* verify of the same id.
C7_PendingDisclosesNothing ==
    /\ [][\A r \in Reqs :
            (/\ reqs[r].pc = "p_find" /\ reqs'[r].pc # "p_find"
             /\ reqs[r].tokenId \in DOMAIN store
             /\ store[reqs[r].tokenId].expiresAt >= now
             /\ ~store[reqs[r].tokenId].isUsed)
            => /\ reqs'[r].pc = "done"
               /\ reqs'[r].resp.status = 200
               /\ reqs'[r].resp.pstatus = "pending"
               /\ reqs'[r].resp.sessionCreationToken = Null]_vars
    /\ [](\A r \in Reqs :
            (/\ reqs[r].kind = "poll" /\ Done(r)
             /\ reqs[r].resp.sessionCreationToken # Null)
            => \E v \in Reqs :
                 /\ reqs[v].kind = "verify" /\ Done(v)
                 /\ reqs[v].resp.status = 200
                 /\ reqs[v].tokenId = reqs[r].tokenId
                 /\ reqs[v].resp.sessionCreationToken
                      = reqs[r].resp.sessionCreationToken)

\* C7 witness: a pollStatus request reported 'pending', and a pollStatus
\* request for the same id disclosed a sessionCreationToken.
C7_Witness ==
    \E p, q \in Reqs :
        /\ reqs[p].kind = "poll" /\ Done(p) /\ reqs[p].resp.pstatus = "pending"
        /\ reqs[q].kind = "poll" /\ Done(q)
        /\ reqs[q].tokenId = reqs[p].tokenId
        /\ reqs[q].resp.sessionCreationToken # Null

\* C8: a pollStatus request that, when it looks the record up, finds it used,
\* holding a sessionCreationToken whose second TTL has not elapsed, does not
\* treat it as expired: whenever it answers while that TTL has not elapsed,
\* it reports 'completed' with that token and the verifying user.
C8_PollCompletedWhileSctLive ==
    [][\A r \in Reqs :
          /\ (/\ reqs[r].pc = "p_find" /\ reqs'[r].pc # "p_find"
              /\ reqs[r].tokenId \in DOMAIN store
              /\ store[reqs[r].tokenId].isUsed
              /\ store[reqs[r].tokenId].sessionCreationToken # Null
              /\ store[reqs[r].tokenId].sessionCreationTokenExpiresAt > now)
             => reqs'[r].pc = "p_user"
          /\ (/\ reqs[r].pc = "p_user" /\ reqs'[r].pc # "p_user"
              /\ reqs[r].snap.sessionCreationToken # Null
              /\ reqs[r].snap.sessionCreationTokenExpiresAt > now)
             => /\ reqs'[r].resp.pstatus = "completed"
                /\ reqs'[r].resp.sessionCreationToken = reqs[r].snap.sessionCreationToken
                /\ reqs'[r].resp.userId = reqs[r].snap.userId]_vars

\* C9: a verify request that finds a record whose secret differs from the
\* one it carries is answered 401 "Invalid token" and leaves the store as it
\* was.
C9_WrongSecretChangesNothing ==
    [][\A r \in Reqs :
          (/\ reqs[r].pc = "v_find" /\ reqs'[r].pc # "v_find"
           /\ reqs[r].tokenId \in DOMAIN store
           /\ store[reqs[r].tokenId].token # reqs[r].token)
          => /\ reqs'[r].pc = "done"
             /\ reqs'[r].resp.status = 401
             /\ reqs'[r].resp.error = "Invalid token"
             /\ store' = store]_vars

\* C9 witness: a verify with a wrong secret failed, the record is there, and a
\* verify of the same id that arrived later succeeded.
C9_Witness ==
    \E q, r \in Reqs :
        /\ q < r
        /\ reqs[q].kind = "verify" /\ Done(q)
        /\ reqs[q].resp.error = "Invalid token"
        /\ reqs[r].kind = "verify" /\ Done(r) /\ reqs[r].resp.status = 200
        /\ reqs[q].tokenId = reqs[r].tokenId
        /\ reqs[r].tokenId \in DOMAIN store
        /\ store[reqs[r].tokenId].sessionCreationToken
             = reqs[r].resp.sessionCreationToken

\* C10: once a verify request has been answered 410 "Token expired", the
\* record of that id is absent from the store for ever, and every verify or
\* pollStatus lookup of that id made afterwards is answered 404.
C10_ExpiredVerifyEvicts ==
    /\ [](\A v \in Reqs :
            (reqs[v].kind = "verify" /\ Done(v) /\ reqs[v].resp.status = 410)
            => reqs[v].tokenId \notin DOMAIN store)
    /\ [][\A r \in Reqs :
            (/\ reqs[r].pc \in {"v_find", "p_find"}
             /\ reqs'[r].pc # reqs[r].pc
             /\ \E v \in Reqs : /\ reqs[v].kind = "verify" /\ Done(v)
                                /\ reqs[v].resp.status = 410
                                /\ reqs[v].tokenId = reqs[r].tokenId)
            => /\ reqs'[r].pc = "done"
               /\ reqs'[r].resp.status = 404
               /\ reqs'[r].resp.error = "Token not found"]_vars

\* C10 witness: a verify request was answered 410 and a later request for the
\* same id was answered 404.
C10_Witness ==
    \E v, r \in Reqs :
        /\ v < r
        /\ reqs[v].kind = "verify" /\ Done(v) /\ reqs[v].resp.status = 410
        /\ reqs[r].kind \in {"verify", "poll"} /\ Done(r)
        /\ reqs[r].tokenId = reqs[v].tokenId
        /\ reqs[r].resp.status = 404

\* C11: the session table changes only in the createSession step of a
\* claimSession request, which adds one session; no step of generate, verify
\* or pollStatus changes it.
C11_SessionsOnlyByClaim ==
    [][sessions' # sessions
        => \E r \in Reqs :
             /\ reqs[r].kind = "claim" /\ reqs[r].pc = "c_create"
             /\ reqs'[r].pc = "c_update"
             /\ \E s \in sessions' : s.by = r /\ sessions' = sessions \cup {s}]_vars

\* C11 witness: a verify has returned a sessionCreationToken and a
\* claimSession request has created a session.
C11_Witness ==
    /\ \E v \in Reqs : reqs[v].kind = "verify" /\ Done(v) /\ reqs[v].resp.status = 200
    /\ \E s \in sessions : s.by # 0 /\ reqs[s.by].kind = "claim"

\* C12: every session created by a claimSession request with token T is bound
\* to the user of the verify request that returned T.
C12_SessionBoundToVerifier ==
    \A s \in sessions :
        s.by # 0
        => \E v \in Reqs :
             /\ reqs[v].kind = "verify" /\ Done(v) /\ reqs[v].resp.status = 200
             /\ reqs[v].resp.sessionCreationToken = reqs[s.by].sct
             /\ reqs[v].resp.userId = s.userId

\* C12 witness: two users verified the same id and a session was claimed with
\* the token of the later-numbered one.
C12_Witness ==
    \E v1, v2 \in Reqs, s \in sessions :
        /\ v1 < v2
        /\ reqs[v1].kind = "verify" /\ Done(v1) /\ reqs[v1].resp.status = 200
        /\ reqs[v2].kind = "verify" /\ Done(v2) /\ reqs[v2].resp.status = 200
        /\ reqs[v1].resp.userId # reqs[v2].resp.userId
        /\ s.by # 0
        /\ reqs[s.by].sct = reqs[v2].resp.sessionCreationToken

\* C13: no pollStatus or claimSession response carries the session token of a
\* scanning device; the sessionToken of a successful claimSession response is
\* the token of the session that request created, and that token belonged to
\* no session before.
C13_SessionsIndependent ==
    /\ [](\A r \in Reqs :
            /\ \A u \in Users : reqs[r].resp.sessionToken # DeviceSessionOf(u)
            /\ reqs[r].kind = "poll" => reqs[r].resp.sessionToken = Null
            /\ (reqs[r].kind = "claim" /\ Done(r) /\ reqs[r].resp.status = 200)
               => \E s \in sessions :
                    s.by = r /\ s.token = reqs[r].resp.sessionToken)
    /\ [][\A s \in sessions' \ sessions :
            \A old \in sessions : old.token # s.token]_vars

\* C13 witness: a claimSession request returned a session token.
C13_Witness ==
    \E r \in Reqs :
        /\ reqs[r].kind = "claim" /\ Done(r) /\ reqs[r].resp.status = 200
        /\ reqs[r].resp.sessionToken # Null

\* C14: every stored record with isUsed = false has userId, verifiedAt and
\* sessionCreationToken unset.
C14_PendingHasNothingSet ==
    \A i \in DOMAIN store :
        ~store[i].isUsed
        => /\ store[i].userId = Null
           /\ store[i].verifiedAt = NullDate
           /\ store[i].sessionCreationToken = Null

\* C14 witness: a verify request has been answered and the record it
\* addressed is stored with isUsed = false.
C14_Witness ==
    \E r \in Reqs :
        /\ reqs[r].kind = "verify" /\ Done(r)
        /\ reqs[r].tokenId \in DOMAIN store
        /\ ~store[reqs[r].tokenId].isUsed

\* C15: every stored record with isUsed = true has userId and verifiedAt set,
\* and has sessionCreationToken and sessionCreationTokenExpiresAt either both
\* set or both cleared.
C15_UsedHasUserAndPairedSct ==
    \A i \in DOMAIN store :
        store[i].isUsed
        => /\ store[i].userId # Null
           /\ store[i].verifiedAt # NullDate
           /\ (store[i].sessionCreationToken = Null)
                <=> (store[i].sessionCreationTokenExpiresAt = NullDate)

\* C15 witness: a used record whose session creation token has been cleared
\* by a successful claim.
C15_Witness ==
    \E i \in DOMAIN store, r \in Reqs :
        /\ store[i].isUsed /\ store[i].sessionCreationToken = Null
        /\ reqs[r].kind = "claim" /\ Done(r) /\ reqs[r].resp.status = 200

\* C16: a used record whose sessionCreationToken has been cleared never holds
\* a sessionCreationToken again, and its userId never changes.
C16_ClaimedIsTerminal ==
    [][\A i \in DOMAIN store :
          (/\ store[i].isUsed /\ store[i].sessionCreationToken = Null
           /\ i \in DOMAIN store')
          => /\ store'[i].sessionCreationToken = Null
             /\ store'[i].userId = store[i].userId]_vars

\* C17: the response of verify to a wrong secret for an existing record is the
\* same (status and message) as its response for an id that has no record.
C17_NotFoundLooksLikeWrongSecret ==
    [][\A r, q \in Reqs :
          (/\ reqs[r].pc = "v_find" /\ reqs'[r].pc = "done"
           /\ reqs[r].tokenId \in DOMAIN store
           /\ store[reqs[r].tokenId].token # reqs[r].token
           /\ reqs[q].kind = "verify" /\ Done(q) /\ reqs[q].tokenId = BogusId)
          => /\ reqs'[r].resp.status = reqs[q].resp.status
             /\ reqs'[r].resp.error = reqs[q].resp.error]_vars

\* C18: every stored record whose expiresAt has passed is eventually removed
\* from the store.
C18_ExpiredEventuallyRemoved ==
    \A i \in 1..MaxTokens :
        (i \in DOMAIN store /\ store[i].expiresAt < now) ~> (i \notin DOMAIN store)

\* C19: whatever paths the configuration gives the four endpoints, every
\* request to one of them falls under the plugin's rate-limit rule (at most
\* RateMax requests per RateWindow seconds).
C19_EveryEndpointRateLimited ==
    rate.last.endpoint # "none" => rate.last.matched

\* C20: once a poll of a startQRAuth flow was answered with the server's
\* expired / not-found reply, both of the flow's timers are cleared and the
\* flow sends no further poll request.
C20_ExpiredReplyStopsClient ==
    [][/\ client'.expiredSeen => ~client'.pollInterval /\ ~client'.expirationTimeout
       /\ client.expiredSeen => client'.sent = client.sent]_vars

\* C21: once onSuccess has been invoked in a startQRAuth flow, the expiry
\* timeout is no longer armed, onError is not invoked any more and no further
\* poll request is sent.
C21_SuccessEndsFlow ==
    [][/\ client'.onSuccess > 0 => ~client'.expirationTimeout
       /\ client.onSuccess > 0 => /\ client'.onError = client.onError
                                  /\ client'.sent = client.sent]_vars

\* C22: in a flow where no TTL elapses, nothing is lost and session creation
\* does not fail, once a user u has verified the token with the correct
\* secret while the client still polls, the client eventually acts on a
\* completed status with userId = u, claims, and receives a new session bound
\* to u.
C22_HappyPathCompletes ==
    \A u \in Users :
        (/\ \E v \in Reqs : /\ reqs[v].kind = "verify" /\ Done(v)
                            /\ reqs[v].resp.status = 200
                            /\ reqs[v].resp.userId = u
         /\ client.pollInterval /\ client.sent < MaxPolls)
        ~> (/\ client.observedUser = u
            /\ client.onSuccess > 0
            /\ \E s \in sessions : /\ s.by # 0 /\ s.userId = u
                                   /\ s.token = client.sessionToken)

\* C23: handleQRCodeScan is parseQRCode followed by verifyQRScan: a payload
\* that parseQRCode rejects makes it return an error with data = null without
\* a verify request being sent, and for a payload that parseQRCode accepts it
\* returns what verifyQRScan returns for the parsed data.
C23_ScanIsParseThenVerify ==
    LET parsed == ParseQRCode(scan.variant, scan.payload) IN
    scan.phase # "scanned"
    => /\ parsed.error # ""
          => /\ scan.phase = "returned" /\ ~scan.sent
             /\ scan.result.data = NoData /\ scan.result.error # ""
       /\ parsed.error = ""
          => /\ scan.sent
             /\ scan.phase = "returned"
                => scan.result = VerifyQRScan(scan.variant, parsed.data, scan.outcome)

\* C24: the checks of verify run in the order record exists, not expired,
\* secret matches, not used: a verify request that finds an expired record
\* goes on to evict it and is answered 410 "Token expired", whatever secret
\* it carries.
C24_ExpiryCheckedBeforeSecret ==
    [][\A r \in Reqs :
          (/\ reqs[r].pc = "v_find" /\ reqs'[r].pc # "v_find"
           /\ reqs[r].tokenId \in DOMAIN store
           /\ store[reqs[r].tokenId].expiresAt < now)
          => reqs'[r].pc = "v_delete"]_vars

\* C25: a verify request with the correct secret that finds an unexpired
\* record already used is answered 409 "Token already used", and the record
\* keeps the userId, verifiedAt, sessionCreationToken and
\* sessionCreationTokenExpiresAt it had.
C25_UsedTokenNotRebound ==
    [][\A r \in Reqs :
          (/\ reqs[r].pc = "v_find" /\ reqs'[r].pc # "v_find"
           /\ reqs[r].tokenId \in DOMAIN store
           /\ store[reqs[r].tokenId].token = reqs[r].token
           /\ store[reqs[r].tokenId].expiresAt >= now
           /\ store[reqs[r].tokenId].isUsed)
          => /\ reqs'[r].pc = "done"
             /\ reqs'[r].resp.status = 409
             /\ reqs'[r].resp.error = "Token already used"
             /\ reqs'[r].resp.sessionCreationToken = Null
             /\ store' = store]_vars

\* C25 witness: a verify succeeded, a verify of the same id that arrived
\* later was answered 409, and the record is still bound to the user of the
\* first verify and holds the session creation token that verify returned.
C25_Witness ==
    \E q, r \in Reqs :
        /\ q < r
        /\ reqs[q].kind = "verify" /\ Done(q) /\ reqs[q].resp.status = 200
        /\ reqs[r].kind = "verify" /\ Done(r) /\ reqs[r].resp.status = 409
        /\ reqs[q].tokenId = reqs[r].tokenId
        /\ reqs[r].tokenId \in DOMAIN store
        /\ store[reqs[r].tokenId].userId = reqs[q].resp.userId
        /\ store[reqs[r].tokenId].sessionCreationToken
             = reqs[q].resp.sessionCreationToken

\* C26: a step in which a verify, pollStatus or claimSession request returns
\* an error response leaves the store as it was, unless it is the eviction
\* step of a request answered 410 "Token expired", which deletes the addressed
\* record and nothing else; a step that writes the store is the last step of
\* its request; and a request rejected for a missing field or a missing
\* authenticated user is answered on arrival, before any store access.
C26_ErrorsChangeNothing ==
    [][\A r \in Reqs :
          reqs'[r].pc # reqs[r].pc
          => /\ store' # store => reqs'[r].pc = "done"
             /\ (reqs'[r].pc = "done" /\ reqs'[r].resp.status # 200)
                => \/ store' = store
                   \/ /\ reqs[r].pc \in {"v_delete", "p_delete"}
                      /\ reqs'[r].resp.status = 410
                      /\ reqs'[r].resp.error = "Token expired"
                      /\ store' = DeleteById(store, reqs[r].tokenId)
             /\ (/\ reqs'[r].pc = "done"
                 /\ reqs'[r].resp.error \in
                      {"Token ID and token are required", "No authenticated user",
                       "Token ID required", "Session creation token is required"})
                => reqs[r].pc = "idle" /\ store' = store]_vars

\* C26 witness: with a verified record in the store, a verify was answered
\* 409, a claimSession 404 and the record still holds what the successful
\* verify wrote.
C26_Witness ==
    \E v, q, c \in Reqs :
        /\ reqs[v].kind = "verify" /\ Done(v) /\ reqs[v].resp.status = 200
        /\ reqs[q].kind = "verify" /\ Done(q) /\ reqs[q].resp.status = 409
        /\ reqs[c].kind = "claim" /\ Done(c) /\ reqs[c].resp.status = 404
        /\ reqs[v].tokenId \in DOMAIN store
        /\ store[reqs[v].tokenId].sessionCreationToken
             = reqs[v].resp.sessionCreationToken

\* C27: no step of a pollStatus request writes a token record: such a step
\* leaves the store as it was, or it is the eviction step, which removes the
\* addressed record, that record being expired, and nothing else.
C27_PollOnlyEvicts ==
    [][\A r \in Reqs :
          (reqs'[r].pc # reqs[r].pc /\ reqs'[r].kind = "poll")
          => \/ store' = store
             \/ /\ reqs[r].pc = "p_delete"
                /\ reqs[r].tokenId \in DOMAIN store
                /\ store[reqs[r].tokenId].expiresAt < now
                /\ store' = DeleteById(store, reqs[r].tokenId)]_vars

\* C27 witness: a pollStatus request disclosed the session creation token of
\* a verified record, and a later pollStatus request evicted the record.
C27_Witness ==
    \E p, q \in Reqs :
        /\ p < q
        /\ reqs[p].kind = "poll" /\ Done(p)
        /\ reqs[p].resp.sessionCreationToken # Null
        /\ reqs[q].kind = "poll" /\ Done(q) /\ reqs[q].resp.status = 410
        /\ reqs[q].tokenId = reqs[p].tokenId
        /\ reqs[q].tokenId \notin DOMAIN store

\* C28: every pollStatus response that carries a sessionCreationToken T
\* carries, with it, a userId that is set and is the user of the verify
\* request that minted T for the same id, whatever verify and claimSession
\* requests run alongside.
C28_PollSeesOneRecordState ==
    \A p \in Reqs :
        (/\ reqs[p].kind = "poll" /\ Done(p)
         /\ reqs[p].resp.sessionCreationToken # Null)
        => /\ reqs[p].resp.pstatus = "completed"
           /\ reqs[p].resp.userId # Null
           /\ \E v \in Reqs :
                /\ reqs[v].kind = "verify" /\ Done(v)
                /\ reqs[v].tokenId = reqs[p].tokenId
                /\ SctOf(v) = reqs[p].resp.sessionCreationToken
                /\ reqs[v].resp.userId = reqs[p].resp.userId

\* C28 witness: two users verified the same id, the later writer having
\* replaced what the earlier one wrote, and a pollStatus response carries a
\* sessionCreationToken.
C28_Witness ==
    \E v1, v2, p \in Reqs :
        /\ reqs[v1].kind = "verify" /\ Done(v1) /\ reqs[v1].resp.status = 200
        /\ reqs[v2].kind = "verify" /\ Done(v2) /\ reqs[v2].resp.status = 200
        /\ reqs[v1].resp.userId # reqs[v2].resp.userId
        /\ reqs[p].kind = "poll" /\ Done(p)
        /\ reqs[p].resp.sessionCreationToken # Null

\* C29: the eviction step of a verify or pollStatus request leaves the store
\* without the addressed record and with every other record as it was, is
\* answered 410 "Token expired", and changes nothing when the record has
\* already been deleted; so the store after several requests evicted the same
\* record is the store after the first eviction.
C29_EvictionIdempotent ==
    [][\A r \in Reqs :
          (reqs[r].pc \in {"v_delete", "p_delete"} /\ reqs'[r].pc # reqs[r].pc)
          => /\ reqs'[r].pc = "done"
             /\ reqs'[r].resp.status = 410
             /\ reqs'[r].resp.error = "Token expired"
             /\ reqs[r].tokenId \notin DOMAIN store'
             /\ DOMAIN store' = DOMAIN store \ {reqs[r].tokenId}
             /\ \A i \in DOMAIN store' : store'[i] = store[i]
             /\ reqs[r].tokenId \notin DOMAIN store => store' = store]_vars

\* C29 witness: a verify request and a pollStatus request both evicted the
\* same expired record.
C29_Witness ==
    \E v, p \in Reqs :
        /\ reqs[v].kind = "verify" /\ Done(v) /\ reqs[v].resp.status = 410
        /\ reqs[p].kind = "poll" /\ Done(p) /\ reqs[p].resp.status = 410
        /\ reqs[v].tokenId = reqs[p].tokenId
        /\ reqs[v].tokenId \notin DOMAIN store

\* C30: a claimSession request that is answered with a failure has created no
\* session, and the step in which it fails leaves the token records, and so
\* every sessionCreationToken, as they were.
C30_FailedClaimCreatesNothing ==
    /\ [](\A r \in Reqs :
            (reqs[r].kind = "claim" /\ Done(r) /\ reqs[r].resp.status # 200)
            => ~\E s \in sessions : s.by = r)
    /\ [][\A r \in Reqs :
            (/\ reqs'[r].kind = "claim" /\ reqs'[r].pc # reqs[r].pc
             /\ reqs'[r].pc = "done" /\ reqs'[r].resp.status # 200)
            => store' = store]_vars

\* C31: the TTL comparisons are strict on the side of the token: at the
\* instant now = sessionCreationTokenExpiresAt claimSession still accepts the
\* token and pollStatus still reports 'completed' with it, and at the instant
\* now = expiresAt a pending token is still verifiable.
C31_TokensLiveAtTheirDeadline ==
    [][\A r \in Reqs :
          /\ (/\ reqs[r].pc = "c_find" /\ reqs'[r].pc # "c_find"
              /\ \E i \in DOMAIN store :
                   /\ store[i].sessionCreationToken = reqs[r].sct
                   /\ store[i].isUsed /\ store[i].userId # Null
                   /\ store[i].sessionCreationTokenExpiresAt = now)
             => reqs'[r].pc = "c_create"
          /\ (/\ reqs[r].pc = "p_user" /\ reqs'[r].pc # "p_user"
              /\ reqs[r].snap.sessionCreationToken # Null
              /\ reqs[r].snap.sessionCreationTokenExpiresAt = now)
             => /\ reqs'[r].resp.pstatus = "completed"
                /\ reqs'[r].resp.sessionCreationToken
                     = reqs[r].snap.sessionCreationToken
          /\ (/\ reqs[r].pc = "v_find" /\ reqs'[r].pc # "v_find"
              /\ reqs[r].tokenId \in DOMAIN store
              /\ store[reqs[r].tokenId].token = reqs[r].token
              /\ ~store[reqs[r].tokenId].isUsed
              /\ store[reqs[r].tokenId].expiresAt = now)
             => reqs'[r].pc = "v_update"]_vars

\* C32: each generate call adds exactly one record, under an id that was
\* never issued before, pending (not used, no userId, no verifiedAt, no
\* sessionCreationToken) and with expiresAt = createdAt + the configured
\* tokenExpirationMinutes, which lies in [1, 60] minutes (default 5); it
\* leaves every existing record, every session and every request in flight
\* as they were, and no other operation adds a record.
C32_GenerateAddsOnePendingRecord ==
    [][/\ nTokens' # nTokens =>
            LET id == TokenIdOf(nTokens + 1) IN
            /\ nTokens' = nTokens + 1
            /\ id \notin IssuedIds
            /\ id \notin DOMAIN store
            /\ DOMAIN store' = DOMAIN store \cup {id}
            /\ \A i \in DOMAIN store : store'[i] = store[i]
            /\ store'[id].id = id
            /\ ~store'[id].isUsed
            /\ store'[id].userId = Null
            /\ store'[id].verifiedAt = NullDate
            /\ store'[id].sessionCreationToken = Null
            /\ store'[id].sessionCreationTokenExpiresAt = NullDate
            /\ store'[id].createdAt = now
            /\ store'[id].expiresAt = store'[id].createdAt + ttl
            /\ MinTtlMs <= ttl * MsPerTick
            /\ ttl * MsPerTick <= MaxTtlMs
            /\ MinTtlMs <= DefaultTtlMs /\ DefaultTtlMs <= MaxTtlMs
            /\ sessions' = sessions
            /\ reqs' = reqs
       /\ nTokens' = nTokens => DOMAIN store' \subseteq DOMAIN store]_vars

\* a second generate call has just returned while the record of the first
\* one has been verified and another request is under way
C32_Witness ==
    /\ nTokens = 2
    /\ DOMAIN store = {TokenIdOf(1), TokenIdOf(2)}
    /\ store[TokenIdOf(1)].isUsed
    /\ store[TokenIdOf(1)].createdAt < store[TokenIdOf(2)].createdAt
    /\ store[TokenIdOf(2)].createdAt = now
    /\ ~store[TokenIdOf(2)].isUsed
    /\ \E r \in Reqs : reqs[r].pc \notin {"idle", "done"}

\* C33: at most one session is ever created from one generated QR token:
\* whatever the interleaving of verify and claimSession calls, the sessions
\* created by claims through the records of one id number at most one.
C33_OneSessionPerQrToken ==
    LET VerifierOf(s) == CHOOSE v \in Reqs : SctOf(v) = reqs[s.by].sct
        Claimed == {s \in sessions : s.by # 0}
    IN  \A s1, s2 \in Claimed :
            reqs[VerifierOf(s1)].tokenId = reqs[VerifierOf(s2)].tokenId
                => s1 = s2

\* C34: whenever a verify call returns success with sessionCreationToken T,
\* the record of that id exists at that moment, is used, belongs to the
\* caller and carries T with a TTL that has not elapsed, so that T is
\* claimable; this holds under any interleaving with the lazy eviction of
\* pollStatus and verify and with other verify calls on the same id.
C34_VerifySuccessLeavesClaimableRecord ==
    [][\A r \in Reqs :
          (/\ reqs[r].pc = "v_update"
           /\ reqs'[r].pc = "done"
           /\ reqs'[r].resp.status = 200)
          => /\ reqs[r].tokenId \in DOMAIN store'
             /\ store'[reqs[r].tokenId].isUsed
             /\ store'[reqs[r].tokenId].userId = reqs'[r].resp.userId
             /\ store'[reqs[r].tokenId].sessionCreationToken
                    = reqs'[r].resp.sessionCreationToken
             /\ FindBySct(store', reqs'[r].resp.sessionCreationToken).found]_vars

\* C35: no operation deletes a verified record while its
\* sessionCreationToken is unclaimed and sessionCreationTokenExpiresAt has
\* not elapsed, so that a claimSession with the token still finds it; this
\* includes the pollStatus and verify calls made after the first-phase
\* expiresAt has passed.
C35_LiveSessionCreationTokenSurvives ==
    [][\A i \in DOMAIN store :
          (/\ store[i].isUsed
           /\ store[i].sessionCreationToken # Null
           /\ SctLive(store[i], now))
          => i \in DOMAIN store']_vars

\* C36: within one startQRAuth flow the client sends at most one
\* claim-session request and invokes onSuccess at most once, also when poll
\* requests overlap and several polls in flight observe 'completed'.
C36_OneClaimPerFlow ==
    /\ client.claimsSent <= 1
    /\ client.onSuccess <= 1

\* C37: after the cleanup() handle has been called the client sends no
\* further poll or claim-session request and invokes neither onSuccess nor
\* onError, also for the poll requests that were in flight at the call.
C37_CleanupSilencesTheFlow ==
    [][client.cleaned =>
          /\ client'.sent = client.sent
          /\ client'.claimsSent = client.claimsSent
          /\ client'.onSuccess = client.onSuccess
          /\ client'.onError = client.onError]_vars

C39_PollingStopsByItself ==
    /\ [][/\ client.fired => client'.sent = client.sent
          /\ (client.phase # "idle" /\ ~client.pollInterval)
                => ~client'.pollInterval]_vars
    /\ [](client.fired => ~client.pollInterval)
    /\ (client.pollInterval ~> ~client.pollInterval)

\* the timeout has fired in a flow that has polled, whose token was never
\* verified and whose cleanup() was never called
C39_Witness ==
    /\ client.fired
    /\ client.sent > 0
    /\ client.srv = "pending"
    /\ ~client.cleaned
    /\ client.onSuccess = 0
    /\ client.claimsSent = 0

====
